---------------------------- MODULE Spec2Model ----------------------------
(***************************************************************************)
(* Jissen Mahjong controller to USB keyboard converter                     *)
(* (Jissen_MJ_USB_Controller.ino).                                         *)
(*                                                                         *)
(* The sketch is modelled statement by statement: every digitalWrite,      *)
(* every sample of the data line, every "if (bitRead(..)==0) press" test   *)
(* and the tail of loop() is one step.  The bodies of readAHrow, readINrow,*)
(* readCommandRow and loop are kept as statement lists in source order.    *)
(*                                                                         *)
(* The controller (a 4021 shift register behind two row-select lines) and  *)
(* the USB keyboard are the environment: the controller answers every      *)
(* latch / clock edge with a level on the data line, the keyboard keeps    *)
(* the set of keys pressed since the last releaseAll.                      *)
(*                                                                         *)
(* A second execution ("twin") of the same sketch runs in lockstep on a    *)
(* controller that presents the same levels at every position that carries *)
(* a button and arbitrary levels at the positions that carry none.  Both   *)
(* executions are driven by the same step functions on a record of the     *)
(* sketch's variables.                                                     *)
(***************************************************************************)
EXTENDS Integers, Sequences, FiniteSets, TLC

\* ------------------------------------------------------------------ bounds
\* The player uses the first NumLive buttons of LiveOrder (scenario "play").
NumLive == 4
\* The run counters of the history saturate at MaxCount.
MaxCount == 3

\* --------------------------------------------------------------- constants
\* Buttons in commands row
RON_BUTTON == 1
RIICHI_BUTTON == 2
CHI_BUTTON == 3
PON_BUTTON == 4
KAN_BUTTON == 5
ST_BUTTON == 6
SEL_BUTTON == 7
\* Buttons in I - N row
N_BUTTON == 2
M_BUTTON == 3
L_BUTTON == 4
K_BUTTON == 5
J_BUTTON == 6
I_BUTTON == 7
\* Buttons in A - H row
H_BUTTON == 0
G_BUTTON == 1
F_BUTTON == 2
E_BUTTON == 3
D_BUTTON == 4
C_BUTTON == 5
B_BUTTON == 6
A_BUTTON == 7

\* Modifier key codes of Keyboard.h, as the sketch passes them to
\* keyboardButtonPress.
KEY_LEFT_CTRL == 128
KEY_LEFT_SHIFT == 129
KEY_LEFT_ALT == 130

\* The bounce-guard delay in milliseconds.
BounceDelay == 80

\* The character literals the sketch passes to keyboardButtonPress.
ascii ==
  [a |-> 97, b |-> 98, c |-> 99, d |-> 100, e |-> 101, f |-> 102, g |-> 103,
   h |-> 104, i |-> 105, j |-> 106, k |-> 107, l |-> 108, m |-> 109,
   n |-> 110, z |-> 122, space |-> 32, one |-> 49, five |-> 53]

\* ------------------------------------------------------------ byte helpers
Pow2(n) == 2 ^ n

\* bitRead(value, bit): the bit of value at position bit.
bitRead(value, bit) == (value \div Pow2(bit)) % 2

\* bitClear(value, bit): value with that bit set to 0.
bitClear(value, bit) ==
  IF bitRead(value, bit) = 1 THEN value - Pow2(bit) ELSE value

\* Conversion of an int to byte (the return type of the read functions).
ToByte(v) == v % 256

\* Conversion of a key code to char (signed, 8 bits), the parameter type of
\* keyboardButtonPress and the type of lastPressedKey.
ToChar(v) == ((v + 128) % 256) - 128

\* Conversion of a char to the uint8_t Keyboard.press receives.
ToUint8(c) == c % 256

\* ------------------------------------------------------ the statement lists
W(pin, val) == [op |-> "digitalWrite", pin |-> pin, val |-> val]
\* if (digitalRead(nesData) == LOW) bitClear(tempData, bit);
S(bit) == [op |-> "sample", bit |-> bit]
\* nesRegister = <fn>();
Call(fn) == [op |-> "call", fn |-> fn]
\* if (bitRead(nesRegister, bit) == 0) keyboardButtonPress(key);
T(bit, key) == [op |-> "test", bit |-> bit, key |-> key]

\* readAHrow with the bits of [B] and [A] exchanged.
readAHrow_swapped ==
  << W("nesAH", "LOW"), W("nesIN", "HIGH"),
     W("nesLatch", "HIGH"), W("nesLatch", "LOW"),
     S(H_BUTTON),
     W("nesClock", "HIGH"), W("nesClock", "LOW"), S(G_BUTTON),
     W("nesClock", "HIGH"), W("nesClock", "LOW"), S(F_BUTTON),
     W("nesClock", "HIGH"), W("nesClock", "LOW"), S(E_BUTTON),
     W("nesClock", "HIGH"), W("nesClock", "LOW"), S(D_BUTTON),
     W("nesClock", "HIGH"), W("nesClock", "LOW"), S(C_BUTTON),
     W("nesClock", "HIGH"), W("nesClock", "LOW"), S(A_BUTTON),
     W("nesClock", "HIGH"), W("nesClock", "LOW"), S(B_BUTTON) >>

readAHrow ==
  << W("nesAH", "LOW"), W("nesIN", "HIGH"),
     W("nesLatch", "HIGH"), W("nesLatch", "LOW"),
     S(H_BUTTON),
     W("nesClock", "HIGH"), W("nesClock", "LOW"), S(G_BUTTON),
     W("nesClock", "HIGH"), W("nesClock", "LOW"), S(F_BUTTON),
     W("nesClock", "HIGH"), W("nesClock", "LOW"), S(E_BUTTON),
     W("nesClock", "HIGH"), W("nesClock", "LOW"), S(D_BUTTON),
     W("nesClock", "HIGH"), W("nesClock", "LOW"), S(C_BUTTON),
     W("nesClock", "HIGH"), W("nesClock", "LOW"), S(B_BUTTON),
     W("nesClock", "HIGH"), W("nesClock", "LOW"), S(A_BUTTON) >>

\* readINrow with only one of the two unused positions clocked past.
readINrow_oneSkip ==
  << W("nesAH", "HIGH"), W("nesIN", "LOW"),
     W("nesLatch", "HIGH"), W("nesLatch", "LOW"),
     W("nesClock", "HIGH"), W("nesClock", "LOW"), S(N_BUTTON),
     W("nesClock", "HIGH"), W("nesClock", "LOW"), S(M_BUTTON),
     W("nesClock", "HIGH"), W("nesClock", "LOW"), S(L_BUTTON),
     W("nesClock", "HIGH"), W("nesClock", "LOW"), S(K_BUTTON),
     W("nesClock", "HIGH"), W("nesClock", "LOW"), S(J_BUTTON),
     W("nesClock", "HIGH"), W("nesClock", "LOW"), S(I_BUTTON) >>

\* readINrow with the data line also read at the two unused positions.
readINrow_readsAll ==
  << W("nesAH", "HIGH"), W("nesIN", "LOW"),
     W("nesLatch", "HIGH"), W("nesLatch", "LOW"),
     S(0),
     W("nesClock", "HIGH"), W("nesClock", "LOW"), S(1),
     W("nesClock", "HIGH"), W("nesClock", "LOW"), S(N_BUTTON),
     W("nesClock", "HIGH"), W("nesClock", "LOW"), S(M_BUTTON),
     W("nesClock", "HIGH"), W("nesClock", "LOW"), S(L_BUTTON),
     W("nesClock", "HIGH"), W("nesClock", "LOW"), S(K_BUTTON),
     W("nesClock", "HIGH"), W("nesClock", "LOW"), S(J_BUTTON),
     W("nesClock", "HIGH"), W("nesClock", "LOW"), S(I_BUTTON) >>

readINrow ==
  << W("nesAH", "HIGH"), W("nesIN", "LOW"),
     W("nesLatch", "HIGH"), W("nesLatch", "LOW"),
     W("nesClock", "HIGH"), W("nesClock", "LOW"),
     W("nesClock", "HIGH"), W("nesClock", "LOW"), S(N_BUTTON),
     W("nesClock", "HIGH"), W("nesClock", "LOW"), S(M_BUTTON),
     W("nesClock", "HIGH"), W("nesClock", "LOW"), S(L_BUTTON),
     W("nesClock", "HIGH"), W("nesClock", "LOW"), S(K_BUTTON),
     W("nesClock", "HIGH"), W("nesClock", "LOW"), S(J_BUTTON),
     W("nesClock", "HIGH"), W("nesClock", "LOW"), S(I_BUTTON) >>

\* readCommandRow selecting with the pair of readINrow.
readCommandRow_selectsIN ==
  << W("nesAH", "HIGH"), W("nesIN", "LOW"),
     W("nesLatch", "HIGH"), W("nesLatch", "LOW"),
     W("nesClock", "HIGH"), W("nesClock", "LOW"), S(RON_BUTTON),
     W("nesClock", "HIGH"), W("nesClock", "LOW"), S(RIICHI_BUTTON),
     W("nesClock", "HIGH"), W("nesClock", "LOW"), S(CHI_BUTTON),
     W("nesClock", "HIGH"), W("nesClock", "LOW"), S(PON_BUTTON),
     W("nesClock", "HIGH"), W("nesClock", "LOW"), S(KAN_BUTTON),
     W("nesClock", "HIGH"), W("nesClock", "LOW"), S(ST_BUTTON),
     W("nesClock", "HIGH"), W("nesClock", "LOW"), S(SEL_BUTTON) >>

\* readCommandRow sampling [RON] before the clock is driven LOW again.
readCommandRow_sampleHigh ==
  << W("nesAH", "HIGH"), W("nesIN", "HIGH"),
     W("nesLatch", "HIGH"), W("nesLatch", "LOW"),
     W("nesClock", "HIGH"), S(RON_BUTTON), W("nesClock", "LOW"),
     W("nesClock", "HIGH"), W("nesClock", "LOW"), S(RIICHI_BUTTON),
     W("nesClock", "HIGH"), W("nesClock", "LOW"), S(CHI_BUTTON),
     W("nesClock", "HIGH"), W("nesClock", "LOW"), S(PON_BUTTON),
     W("nesClock", "HIGH"), W("nesClock", "LOW"), S(KAN_BUTTON),
     W("nesClock", "HIGH"), W("nesClock", "LOW"), S(ST_BUTTON),
     W("nesClock", "HIGH"), W("nesClock", "LOW"), S(SEL_BUTTON) >>

readCommandRow ==
  << W("nesAH", "HIGH"), W("nesIN", "HIGH"),
     W("nesLatch", "HIGH"), W("nesLatch", "LOW"),
     W("nesClock", "HIGH"), W("nesClock", "LOW"), S(RON_BUTTON),
     W("nesClock", "HIGH"), W("nesClock", "LOW"), S(RIICHI_BUTTON),
     W("nesClock", "HIGH"), W("nesClock", "LOW"), S(CHI_BUTTON),
     W("nesClock", "HIGH"), W("nesClock", "LOW"), S(PON_BUTTON),
     W("nesClock", "HIGH"), W("nesClock", "LOW"), S(KAN_BUTTON),
     W("nesClock", "HIGH"), W("nesClock", "LOW"), S(ST_BUTTON),
     W("nesClock", "HIGH"), W("nesClock", "LOW"), S(SEL_BUTTON) >>

\* The body of the function a call statement names.
Body(fn) ==
  CASE fn = "readAHrow" -> readAHrow
    [] fn = "readINrow" -> readINrow
    [] fn = "readCommandRow" -> readCommandRow

\* The key tests of loop() after each of the three reads.
testsAH ==
  << T(H_BUTTON, ascii.h), T(G_BUTTON, ascii.g), T(F_BUTTON, ascii.f),
     T(E_BUTTON, ascii.e), T(D_BUTTON, ascii.d), T(C_BUTTON, ascii.c),
     T(B_BUTTON, ascii.b), T(A_BUTTON, ascii.a) >>

testsIN ==
  << T(N_BUTTON, ascii.n), T(M_BUTTON, ascii.m), T(L_BUTTON, ascii.l),
     T(K_BUTTON, ascii.k), T(J_BUTTON, ascii.j), T(I_BUTTON, ascii.i) >>

\* testsCommand with the keys of [PON] and [KAN] exchanged.
testsCommand_swapped ==
  << T(RON_BUTTON, ascii.z), T(RIICHI_BUTTON, KEY_LEFT_SHIFT),
     T(CHI_BUTTON, ascii.space), T(PON_BUTTON, KEY_LEFT_CTRL),
     T(KAN_BUTTON, KEY_LEFT_ALT), T(ST_BUTTON, ascii.one),
     T(SEL_BUTTON, ascii.five) >>

testsCommand ==
  << T(RON_BUTTON, ascii.z), T(RIICHI_BUTTON, KEY_LEFT_SHIFT),
     T(CHI_BUTTON, ascii.space), T(PON_BUTTON, KEY_LEFT_ALT),
     T(KAN_BUTTON, KEY_LEFT_CTRL), T(ST_BUTTON, ascii.one),
     T(SEL_BUTTON, ascii.five) >>

\* loop(), up to its tail: the three reads, each followed by its key tests.
loop ==
  << Call("readAHrow") >> \o testsAH \o
  << Call("readINrow") >> \o testsIN \o
  << Call("readCommandRow") >> \o testsCommand

\* Positions of the program counter after the statement list of loop().
AtTail == Len(loop) + 1     \* at "if (isButtonPressed) ... else ..."
AtReset == Len(loop) + 2    \* at "isButtonPressed = false;"

\* ------------------------------------------------------- the controller
\* The table of the header comment: the button at each bit# of each row.
Table ==
     "AH"  :> << "H", "G", "F", "E", "D", "C", "B", "A" >>
  @@ "IN"  :> << "-", "-", "N", "M", "L", "K", "J", "I" >>
  @@ "CMD" :> << "-", "RON", "RIICHI", "CHI", "PON", "KAN", "ST", "SEL" >>

Rows == {"AH", "IN", "CMD"}
Positions == 0 .. 7

\* The row the two select lines choose.
RowSelected(ah, inn) ==
  CASE ah = "LOW" /\ inn = "HIGH" -> "AH"
    [] ah = "HIGH" /\ inn = "LOW" -> "IN"
    [] ah = "HIGH" /\ inn = "HIGH" -> "CMD"
    [] OTHER -> "none"

\* The button at a position of a row, "-" where there is none.
ButtonAt(r, k) ==
  IF r \in Rows /\ k \in Positions THEN Table[r][k + 1] ELSE "-"

ButtonPositions(r) == {k \in Positions : ButtonAt(r, k) # "-"}

\* The order in which buttons are added to the set the player uses.
LiveOrder ==
  << <<"AH", 0>>, <<"CMD", 2>>, <<"IN", 2>>, <<"CMD", 1>>, <<"AH", 7>>,
     <<"IN", 7>>, <<"AH", 1>>, <<"CMD", 7>> >>

Played == {LiveOrder[i] : i \in 1 .. NumLive}
Sweep(r) == {<<r, k>> : k \in ButtonPositions(r)}

VARIABLES
  pc,               \* 0: before setup(); else the position in loop()
  rpc,              \* 0: not in a read function; else the position in it
  nesRegister,      \* byte nesRegister
  tempData,         \* int tempData of the running read function
  lastPressedKey,   \* char lastPressedKey
  isButtonPressed,  \* bool isButtonPressed
  out,              \* keyboard requests and delays of this polling cycle
  nesClock, nesLatch, nesAH, nesIN,   \* levels of the output pins
  nesData,          \* level the controller presents on the data pin
  held,             \* keyboard: keys pressed and not yet released
  twin,             \* second execution: its sketch variables and its out
  twinData,         \* second execution: level on its data pin
  live,             \* controller: button positions that may read LOW
  row,              \* controller: row selected at the last latch pulse
  clocks,           \* controller: rising clock edges since that latch pulse
  line,             \* controller: level presented at each position since
  latches,          \* history: latch pulses of the running read function
  sampled,          \* history: positions sampled by the running read
  samples,          \* history: number of data-line reads of the running read
  recent,           \* history: the last two pin writes (pin, level before,
                    \*   level written) since the call or the last sample
  latchLog,         \* history: select pair at each latch pulse of the cycle
  regs,             \* history: value each row's read returned this cycle
  req,              \* history: keys requested since the last read returned
  differed,         \* history: the twin's data line differed this cycle
  prevRegs,         \* history: regs of the previous polling cycle
  prevOut,          \* history: out of the previous polling cycle
  runPress,         \* history: press requests in the run of cycles that
                    \*   read the same snapshot as the previous cycle
  runRelease        \* history: releaseAll requests in that run

vars ==
  << pc, rpc, nesRegister, tempData, lastPressedKey, isButtonPressed, out,
     nesClock, nesLatch, nesAH, nesIN, nesData, held, twin, twinData, live,
     row, clocks, line, latches, sampled, samples, latchLog, regs, req,
     differed, prevRegs, prevOut, runPress, runRelease, recent >>

pinVars == << nesClock, nesLatch, nesAH, nesIN >>
ctrlVars == << nesData, twinData, row, clocks, line, latchLog, differed >>
readHist == << latches, sampled, samples, recent >>
runHist == << prevRegs, prevOut, runPress, runRelease >>

Levels == {"LOW", "HIGH"}
NoLine == [k \in Positions |-> "HIGH"]
NoRegs == [r \in Rows \cup {"none"} |-> 255]

Sat(n) == IF n > MaxCount THEN MaxCount ELSE n

\* The last two entries of a sequence.
LastTwo(q) == IF Len(q) <= 2 THEN q ELSE SubSeq(q, Len(q) - 1, Len(q))

\* The level of a pin.
LevelOf(pin) ==
  CASE pin = "nesAH" -> nesAH
    [] pin = "nesIN" -> nesIN
    [] pin = "nesLatch" -> nesLatch
    [] pin = "nesClock" -> nesClock

\* ------------------------------------------------- the sketch's variables
\* The variables of the first execution as one record.
Main ==
  [nesRegister |-> nesRegister, tempData |-> tempData,
   lastPressedKey |-> lastPressedKey, isButtonPressed |-> isButtonPressed,
   out |-> out]

\* The first execution's variables become those of record s.
Becomes(s) ==
  /\ nesRegister' = s.nesRegister
  /\ tempData' = s.tempData
  /\ lastPressedKey' = s.lastPressedKey
  /\ isButtonPressed' = s.isButtonPressed
  /\ out' = s.out

\* The globals as declared, before setup().
Globals ==
  [nesRegister |-> 0, tempData |-> 255, lastPressedKey |-> 0,
   isButtonPressed |-> FALSE, out |-> <<>>]

\* ----------------------------------------------------- the step functions
\* int tempData = 255;
Enter(s) == [s EXCEPT !.tempData = 255]

\* if (digitalRead(nesData) == LOW) bitClear(tempData, bit);
Sample(s, level, bit) ==
  IF level = "LOW" THEN [s EXCEPT !.tempData = bitClear(@, bit)] ELSE s

\* return tempData;  assigned to nesRegister by the caller.  The local
\* variable ends with the call (255 stands for "no read running").
Return(s) == [s EXCEPT !.nesRegister = ToByte(s.tempData), !.tempData = 255]

\* keyboardButtonPress with "isButtonPressed = true;" left out.
keyboardButtonPress_noFlag(s, key) ==
  [s EXCEPT !.out = Append(@, <<"press", ToUint8(ToChar(key))>>),
            !.lastPressedKey = ToChar(key)]

\* keyboardButtonPress with "lastPressedKey = key;" left out.
keyboardButtonPress_noRecord(s, key) ==
  [s EXCEPT !.isButtonPressed = TRUE,
            !.out = Append(@, <<"press", ToUint8(ToChar(key))>>)]

\* void keyboardButtonPress(char key)
keyboardButtonPress(s, key) ==
  [s EXCEPT !.isButtonPressed = TRUE,
            !.out = Append(@, <<"press", ToUint8(ToChar(key))>>),
            !.lastPressedKey = ToChar(key)]

\* if (bitRead(nesRegister, bit) == 0) keyboardButtonPress(key);
Test(s, bit, key) ==
  IF bitRead(s.nesRegister, bit) = 0 THEN keyboardButtonPress(s, key) ELSE s

\* Settle without the test "lastPressedKey != 0x0".
Settle_alwaysRelease(s) ==
  IF s.isButtonPressed
    THEN [s EXCEPT !.out = Append(@, <<"delay", BounceDelay>>)]
    ELSE [s EXCEPT !.out = Append(@, <<"releaseAll", 0>>),
                   !.lastPressedKey = 0]

\* Settle with "lastPressedKey = 0x0;" left out.
Settle_keepsRecord(s) ==
  IF s.isButtonPressed
    THEN [s EXCEPT !.out = Append(@, <<"delay", BounceDelay>>)]
    ELSE IF s.lastPressedKey # 0
           THEN [s EXCEPT !.out = Append(@, <<"releaseAll", 0>>)]
           ELSE s

\* if (isButtonPressed) delay(80);
\* else { if (lastPressedKey != 0x0) { Keyboard.releaseAll();
\*                                     lastPressedKey = 0x0; } }
Settle(s) ==
  IF s.isButtonPressed
    THEN [s EXCEPT !.out = Append(@, <<"delay", BounceDelay>>)]
    ELSE IF s.lastPressedKey # 0
           THEN [s EXCEPT !.out = Append(@, <<"releaseAll", 0>>),
                          !.lastPressedKey = 0]
           ELSE s

\* Reset with "isButtonPressed = false;" left out.
Reset_keepsFlag(s) == [s EXCEPT !.out = <<>>]

\* isButtonPressed = false;  and loop() is entered again.
Reset(s) == [s EXCEPT !.isButtonPressed = FALSE, !.out = <<>>]

\* ------------------------------------------------------- the environment
\* The keyboard after the requests o2 that extend the requests o by at most
\* one: press adds the key to the keys held, releaseAll releases them all.
Keyboard(h, o, o2) ==
  IF Len(o2) = Len(o) THEN h
  ELSE LET ev == o2[Len(o2)] IN
       CASE ev[1] = "press" -> h \cup {ev[2]}
         [] ev[1] = "releaseAll" -> {}
         [] OTHER -> h

\* The keys of the press requests among the events o.
PressKeys(o) == {o[i][2] : i \in {j \in 1 .. Len(o) : o[j][1] = "press"}}

\* The number of events of kind e among the events o.
Count(o, e) == Cardinality({i \in 1 .. Len(o) : o[i][1] = e})

\* Levels the controller may present at position k of row r: a button of
\* the live set may be down or up, any other button is up, and a position
\* that carries no button is left undetermined.
DataLevels(r, k) ==
  IF ButtonAt(r, k) = "-" THEN Levels
  ELSE IF <<r, k>> \in live THEN Levels ELSE {"HIGH"}

\* Levels the twin's controller may present when the first presents level:
\* the same at a button, any at a position that carries none.
TwinLevels(r, k, level) ==
  IF ButtonAt(r, k) = "-" THEN Levels ELSE {level}

\* The controller presents position k of row r to both executions.
Present(r, k) ==
  /\ nesData' \in DataLevels(r, k)
  /\ twinData' \in TwinLevels(r, k, nesData')
  /\ differed' = (differed \/ twinData' # nesData')
  /\ line' = IF k \in Positions THEN [line EXCEPT ![k] = nesData'] ELSE line

\* The controller's answer to a write of val to pin: a rising edge of the
\* latch loads the selected row and presents its position 0, a rising edge
\* of the clock shifts to the next position.
Controller(pin, val) ==
  IF pin = "nesLatch" /\ val = "HIGH" /\ nesLatch = "LOW"
    THEN /\ row' = RowSelected(nesAH, nesIN)
         /\ clocks' = 0
         /\ latchLog' = Append(latchLog, <<nesAH, nesIN>>)
         /\ latches' = latches + 1
         /\ Present(row', 0)
  ELSE IF pin = "nesClock" /\ val = "HIGH" /\ nesClock = "LOW"
    THEN /\ clocks' = clocks + 1
         /\ Present(row, clocks')
         /\ UNCHANGED << row, latchLog, latches >>
  ELSE UNCHANGED << ctrlVars, latches >>

\* The buttons (row, position) that the returned values rg show as pressed.
Snap(rg) ==
  {b \in Rows \X Positions :
     ButtonAt(b[1], b[2]) # "-" /\ bitRead(rg[b[1]], b[2]) = 0}

\* ---------------------------------------------------------------- Init
Init ==
  /\ pc = 0
  /\ rpc = 0
  /\ nesRegister = Globals.nesRegister
  /\ tempData = Globals.tempData
  /\ lastPressedKey = Globals.lastPressedKey
  /\ isButtonPressed = Globals.isButtonPressed
  /\ out = Globals.out
  \* the pins are not driven before setup(): any level
  /\ nesClock \in Levels
  /\ nesLatch \in Levels
  /\ nesAH \in Levels
  /\ nesIN \in Levels
  /\ nesData = "HIGH"
  /\ held = {}
  /\ twin = Globals
  /\ twinData = "HIGH"
  /\ live \in {Played} \cup {Sweep(r) : r \in Rows}
  /\ row = "none"
  /\ clocks = 0
  /\ line = NoLine
  /\ latches = 0
  /\ sampled = {}
  /\ samples = 0
  /\ recent = <<>>
  /\ latchLog = <<>>
  /\ regs = NoRegs
  /\ req = {}
  /\ differed = FALSE
  /\ prevRegs = NoRegs
  /\ prevOut = <<>>
  /\ runPress = 0
  /\ runRelease = 0

\* --------------------------------------------------------------- actions
\* setup(): the clock and the latch are driven LOW; the two select pins are
\* made outputs and not written.
setup ==
  /\ pc = 0
  /\ pc' = 1
  /\ nesClock' = "LOW"
  /\ nesLatch' = "LOW"
  /\ UNCHANGED << rpc, nesRegister, tempData, lastPressedKey,
                  isButtonPressed, out, nesAH, nesIN, held, twin, live,
                  ctrlVars, readHist, regs, req, runHist >>

InLoop == pc \in 1 .. Len(loop)
InRead == InLoop /\ loop[pc].op = "call" /\ rpc >= 1
Running == Body(loop[pc].fn)

\* nesRegister = readXrow();  the call, up to "int tempData = 255;".
callRead ==
  /\ InLoop /\ loop[pc].op = "call" /\ rpc = 0
  /\ rpc' = 1
  /\ Becomes(Enter(Main))
  /\ twin' = Enter(twin)
  /\ latches' = 0
  /\ sampled' = {}
  /\ samples' = 0
  /\ recent' = <<>>
  /\ UNCHANGED << pc, pinVars, held, live, ctrlVars, regs, req, runHist >>

\* digitalWrite(pin, val) in a read function.
digitalWrite ==
  /\ InRead /\ rpc <= Len(Running) /\ Running[rpc].op = "digitalWrite"
  /\ LET st == Running[rpc] IN
       /\ nesAH' = IF st.pin = "nesAH" THEN st.val ELSE nesAH
       /\ nesIN' = IF st.pin = "nesIN" THEN st.val ELSE nesIN
       /\ nesLatch' = IF st.pin = "nesLatch" THEN st.val ELSE nesLatch
       /\ nesClock' = IF st.pin = "nesClock" THEN st.val ELSE nesClock
       /\ Controller(st.pin, st.val)
       /\ recent' = LastTwo(Append(recent, <<st.pin, LevelOf(st.pin), st.val>>))
  /\ rpc' = rpc + 1
  /\ UNCHANGED << pc, nesRegister, tempData, lastPressedKey,
                  isButtonPressed, out, held, twin, live, sampled, samples,
                  regs, req, runHist >>

\* if (digitalRead(nesData) == LOW) bitClear(tempData, X_BUTTON);
sampleData ==
  /\ InRead /\ rpc <= Len(Running) /\ Running[rpc].op = "sample"
  /\ Becomes(Sample(Main, nesData, Running[rpc].bit))
  /\ twin' = Sample(twin, twinData, Running[rpc].bit)
  /\ sampled' = sampled \cup {clocks}
  /\ samples' = samples + 1
  /\ recent' = <<>>
  /\ rpc' = rpc + 1
  /\ UNCHANGED << pc, pinVars, held, live, ctrlVars, latches, regs, req,
                  runHist >>

\* return tempData;  back in loop() with nesRegister assigned.  The record
\* of the levels presented during the read ends with the read.
returnRead ==
  /\ InRead /\ rpc = Len(Running) + 1
  /\ Becomes(Return(Main))
  /\ twin' = Return(twin)
  /\ rpc' = 0
  /\ pc' = pc + 1
  /\ regs' = [regs EXCEPT ![row] = nesRegister']
  /\ req' = {}
  /\ line' = NoLine
  /\ UNCHANGED << pinVars, held, live, nesData, twinData, row, clocks,
                  latchLog, differed, readHist, runHist >>

\* if (bitRead(nesRegister, X_BUTTON) == 0) keyboardButtonPress(key);
keyTest ==
  /\ InLoop /\ loop[pc].op = "test"
  /\ Becomes(Test(Main, loop[pc].bit, loop[pc].key))
  /\ twin' = Test(twin, loop[pc].bit, loop[pc].key)
  /\ held' = Keyboard(held, out, out')
  /\ req' = req \cup PressKeys(SubSeq(out', Len(out) + 1, Len(out')))
  /\ pc' = pc + 1
  /\ UNCHANGED << rpc, pinVars, live, ctrlVars, readHist, regs, runHist >>

\* The tail of loop(): the bounce-guard delay or the release.
loopTail ==
  /\ pc = AtTail
  /\ Becomes(Settle(Main))
  /\ twin' = Settle(twin)
  /\ held' = Keyboard(held, out, out')
  /\ pc' = AtReset
  /\ UNCHANGED << rpc, pinVars, live, ctrlVars, readHist, regs, req,
                  runHist >>

\* isButtonPressed = false;  loop() returns and is called again.  In a
\* sweep the player lets go of every button after the first cycle.
loopReset ==
  /\ pc = AtReset
  /\ Becomes(Reset(Main))
  /\ twin' = Reset(twin)
  /\ pc' = 1
  /\ live' = IF live = Played THEN live ELSE {}
  /\ prevRegs' = regs
  /\ prevOut' = out
  /\ runPress' = IF Snap(regs) = Snap(prevRegs)
                   THEN Sat(runPress + Count(out, "press"))
                   ELSE Sat(Count(out, "press"))
  /\ runRelease' = IF Snap(regs) = Snap(prevRegs)
                     THEN Sat(runRelease + Count(out, "releaseAll"))
                     ELSE Sat(Count(out, "releaseAll"))
  /\ regs' = NoRegs
  /\ req' = {}
  /\ latchLog' = <<>>
  /\ differed' = FALSE
  /\ UNCHANGED << rpc, pinVars, held, nesData, twinData, row, clocks, line,
                  readHist >>

Next ==
  \/ setup
  \/ callRead
  \/ digitalWrite
  \/ sampleData
  \/ returnRead
  \/ keyTest
  \/ loopTail
  \/ loopReset

Spec == Init /\ [][Next]_vars

\* ====================================================== the properties
\* The state in which a polling cycle has read its three rows, made its key
\* requests and run the tail of loop(): "isButtonPressed = false" is next.
CycleDone == pc = AtReset

\* The key code the keyboard is to receive for each button.
KeyOf ==
     "A" :> ascii.a @@ "B" :> ascii.b @@ "C" :> ascii.c @@ "D" :> ascii.d
  @@ "E" :> ascii.e @@ "F" :> ascii.f @@ "G" :> ascii.g @@ "H" :> ascii.h
  @@ "I" :> ascii.i @@ "J" :> ascii.j @@ "K" :> ascii.k @@ "L" :> ascii.l
  @@ "M" :> ascii.m @@ "N" :> ascii.n
  @@ "RON" :> ascii.z @@ "RIICHI" :> KEY_LEFT_SHIFT @@ "CHI" :> ascii.space
  @@ "PON" :> KEY_LEFT_ALT @@ "KAN" :> KEY_LEFT_CTRL @@ "ST" :> ascii.one
  @@ "SEL" :> ascii.five

\* The key codes of the buttons of row r whose bit is 0 in the value v.
RowKeys(r, v) ==
  {KeyOf[ButtonAt(r, k)] : k \in {j \in ButtonPositions(r) : bitRead(v, j) = 0}}

\* The key codes of a set of buttons (row, position).
SnapKeys(bs) == {KeyOf[ButtonAt(b[1], b[2])] : b \in bs}

\* C1 (as claimed): when two consecutive polling cycles read the same
\* non-empty set of pressed buttons, the second cycle requests no press for
\* a key that already got a press request in the first.
C1_NoDuplicatePress ==
  (CycleDone /\ Snap(regs) # {} /\ Snap(regs) = Snap(prevRegs))
    => PressKeys(out) \cap PressKeys(prevOut) = {}

\* C2: when a polling cycle that read a button as pressed is followed by a
\* cycle that reads all three rows clear, that second cycle requests
\* releaseAll exactly once, no key stays held and lastPressedKey is 0.
C2_ReleaseCompleteness ==
  (CycleDone /\ Snap(prevRegs) # {} /\ Snap(regs) = {})
    => /\ Count(out, "releaseAll") = 1
       /\ Count(out, "press") = 0
       /\ held = {}
       /\ lastPressedKey = 0

\* C2 witness: two buttons held over several cycles, then an all-clear cycle
\* that has released them.
C2_Witness ==
  /\ CycleDone
  /\ Cardinality(Snap(prevRegs)) >= 2
  /\ Snap(regs) = {}
  /\ runPress = MaxCount
  /\ Count(out, "releaseAll") = 1
  /\ held = {}

\* C3 (as claimed): n >= 1 consecutive cycles that read one and the same
\* single button, followed by an all-clear cycle, make exactly one press
\* request and exactly one releaseAll request in all.
C3_RoundTrip ==
  (CycleDone /\ Snap(regs) = {} /\ Cardinality(Snap(prevRegs)) = 1)
    => /\ runPress + Count(out, "press") = 1
       /\ runRelease + Count(out, "releaseAll") = 1

\* C4: when the key tests that follow a row's read are done, the keys
\* requested since that read returned are exactly the key codes of the
\* buttons whose table position holds 0 in the value returned (none for
\* 0xFF); before that, they are among them.
StageDone ==
  /\ rpc = 0
  /\ row \in Rows
  /\ \/ pc \in {AtTail, AtReset}
     \/ pc \in 2 .. Len(loop) /\ loop[pc].op = "call"
StageRunning == rpc = 0 /\ row \in Rows /\ pc \in 2 .. AtReset

C4_DecodeAndKeyMapping ==
  /\ StageDone => req = RowKeys(row, nesRegister)
  /\ StageRunning => req \subseteq RowKeys(row, nesRegister)
  /\ (StageRunning /\ nesRegister = 255) => req = {}

\* C4 witness: the command row read with all seven buttons down; all seven
\* keys have been requested.
C4_Witness ==
  /\ StageDone
  /\ row = "CMD"
  /\ nesRegister = 1
  /\ req = {ascii.z, KEY_LEFT_SHIFT, ascii.space, KEY_LEFT_ALT,
            KEY_LEFT_CTRL, ascii.one, ascii.five}

\* The select pair (select-AH, select-IN) of each row.
SelectPair(r) ==
  CASE r = "AH" -> <<"LOW", "HIGH">>
    [] r = "IN" -> <<"HIGH", "LOW">>
    [] r = "CMD" -> <<"HIGH", "HIGH">>

RowOrder == << SelectPair("AH"), SelectPair("IN"), SelectPair("CMD") >>

\* A read function has pulsed the latch and not yet returned.
Latched == InRead /\ latches >= 1

\* The step appends a press request to out.
PressStep == Len(out') = Len(out) + 1 /\ out'[Len(out')][1] = "press"

\* C5, state part: the latch pulses of a polling cycle are made with the select pair at
\* (LOW,HIGH), then (HIGH,LOW), then (HIGH,HIGH), three in all; the pair
\* stays as it was at the latch pulse until the read returns and through
\* the key tests that follow; and a press is requested only after the read
\* of the row it comes from has returned, for a key of that row whose bit
\* is 0 in the value returned, with the select pair still at that row.
C5_RowsInOrder ==
  /\ Len(latchLog) <= 3
  /\ latchLog = SubSeq(RowOrder, 1, Len(latchLog))
  /\ pc \in {AtTail, AtReset} => latchLog = RowOrder
  /\ (Latched \/ (rpc = 0 /\ pc \in 2 .. AtReset))
       => <<nesAH, nesIN>> = latchLog[Len(latchLog)]
  /\ (InRead /\ rpc <= Len(Running) /\ Running[rpc].op = "sample")
       => latches = 1

C5_PressAfterRead ==
  [][PressStep =>
       /\ rpc = 0
       /\ row \in Rows
       /\ <<nesAH, nesIN>> = SelectPair(row)
       /\ regs[row] = nesRegister
       /\ out'[Len(out')][2] \in RowKeys(row, nesRegister)]_vars

\* C5: the rows are latched in the order AH, IN, command with the select
\* pair held through each read, and every press request follows the read
\* of its row and precedes the next write of the select lines.
C5_RowOrderAndEventOrder == []C5_RowsInOrder /\ C5_PressAfterRead

\* C5 witness: a cycle with three latch pulses that has requested a key of
\* each of the three rows, in the order of the rows.
C5_Witness ==
  /\ CycleDone
  /\ Len(latchLog) = 3
  /\ Len(out) = 4
  /\ out[1] = <<"press", ascii.h>>
  /\ out[2] = <<"press", ascii.n>>
  /\ out[3] = <<"press", KEY_LEFT_SHIFT>>

\* C6 (as claimed): from the end of setup() on, the two select lines are
\* never both LOW.
C6_NeverBothLow == pc # 0 => ~(nesAH = "LOW" /\ nesIN = "LOW")

\* A read function is about to return.
AtReturn == InRead /\ rpc = Len(Running) + 1

\* C7 (as claimed): every row read makes one latch pulse and then reads the
\* data line 8 times, at position 0 and after each of 7 clock pulses.
C7_EightReadsEveryRow ==
  AtReturn => /\ latches = 1
              /\ clocks = 7
              /\ samples = 8
              /\ sampled = Positions

\* C7 (amended): every row read makes one latch pulse and then 7 clock
\* pulses, and reads the data line once at each position that carries a
\* button and at no other: 8 reads in readAHrow, 6 in readINrow, 7 in
\* readCommandRow.
C7_ClockedButNotRead ==
  AtReturn => /\ latches = 1
              /\ clocks = 7
              /\ nesClock = "LOW"
              /\ nesLatch = "LOW"
              /\ row \in Rows
              /\ sampled = ButtonPositions(row)
              /\ samples = Cardinality(ButtonPositions(row))
              /\ samples = CASE loop[pc].fn = "readAHrow" -> 8
                             [] loop[pc].fn = "readINrow" -> 6
                             [] loop[pc].fn = "readCommandRow" -> 7

\* C7 witness: readINrow about to return after 7 clock pulses and 6 reads.
C7_Witness ==
  /\ AtReturn
  /\ loop[pc].fn = "readINrow"
  /\ clocks = 7
  /\ samples = 6
  /\ sampled = 2 .. 7

\* C8: the execution whose controller differs only in the levels at the
\* positions that carry no button makes the same press requests,
\* releaseAll requests and delays, in the same order.
C8_UnusedPositionsIgnored == out = twin.out

\* C8 witness: the levels at an unused position have differed in a cycle
\* that made two press requests and the delay.
C8_Witness ==
  /\ CycleDone
  /\ differed
  /\ Count(out, "press") >= 2
  /\ Count(out, "delay") = 1

\* C9: when a row read returns, each bit that carries a button is 0 exactly
\* when the data line was LOW at that position, that is after the latch
\* pulse and as many clock pulses as the bit's number; every sample is
\* taken at the position of the bit it decides, with the clock LOW.
C9_BitPlacement ==
  /\ AtReturn =>
       \A k \in ButtonPositions(row) :
         (bitRead(ToByte(tempData), k) = 0) <=> (line[k] = "LOW")
  /\ (InRead /\ rpc <= Len(Running) /\ Running[rpc].op = "sample")
       => /\ Running[rpc].bit = clocks
          /\ nesClock = "LOW"

\* C9 witness: the command row about to return 0b10101011 while the unused
\* position 0 was LOW.
C9_Witness ==
  /\ AtReturn
  /\ row = "CMD"
  /\ tempData = 171
  /\ line[0] = "LOW"

\* C10, state part: releaseAll is requested only by the tail of a cycle whose three
\* rows read clear, so never in a cycle that read a button as pressed; and
\* keys leave the set of held keys only all at once, by that request.
C10_NoReleaseWhilePressed ==
  /\ Count(out, "releaseAll") > 0 => (CycleDone /\ Snap(regs) = {})
  /\ (CycleDone /\ Snap(regs) # {}) => PressKeys(prevOut) \subseteq held

C10_OnlyReleaseAll ==
  [][\/ held \subseteq held'
     \/ /\ held' = {}
        /\ pc = AtTail
        /\ Snap(regs) = {}
        /\ out' = Append(out, <<"releaseAll", 0>>)]_vars

\* C10: no release is requested in a cycle that read a button as pressed;
\* a key once pressed stays held until the releaseAll of the first cycle
\* that reads all three rows clear, and no key is released on its own.
C10_HoldUntilFullyClear ==
  []C10_NoReleaseWhilePressed /\ C10_OnlyReleaseAll

\* C10 witness: a cycle that read a button as pressed is done while a key
\* pressed in the previous cycle, whose button now reads clear, is held.
C10_Witness ==
  /\ CycleDone
  /\ Snap(regs) # {}
  /\ \E key \in PressKeys(prevOut) :
       key \in held /\ key \notin SnapKeys(Snap(regs))

\* loop() is about to be entered: a polling cycle begins.
CycleStart == pc = 1 /\ rpc = 0

\* C11: a polling cycle makes the bounce-guard delay, once and as its last
\* event, exactly when one of its three reads showed a button as pressed;
\* isButtonPressed is false whenever loop() is entered, so no earlier cycle
\* decides it; and no cycle both delays and requests releaseAll.
C11_BounceGuardDelay ==
  /\ CycleStart => (isButtonPressed = FALSE /\ out = <<>>)
  /\ CycleDone =>
       /\ (Count(out, "delay") = 1) <=> (Snap(regs) # {})
       /\ Count(out, "delay") <= 1
       /\ Count(out, "delay") = 1 => out[Len(out)] = <<"delay", BounceDelay>>
       /\ ~(Count(out, "delay") > 0 /\ Count(out, "releaseAll") > 0)
  /\ ~CycleDone => Count(out, "delay") = 0

\* C11 witness: a cycle that read all rows clear has ended without a delay
\* right after a cycle that read a button as pressed and made the delay.
C11_Witness ==
  /\ CycleDone
  /\ Snap(regs) = {}
  /\ Count(out, "delay") = 0
  /\ Snap(prevRegs) # {}
  /\ Count(prevOut, "delay") = 1

\* The data line is about to be read.
SamplePending == InRead /\ rpc <= Len(Running) /\ Running[rpc].op = "sample"

\* A complete pulse of a pin: from LOW to HIGH, then back to LOW.
Pulse(pin) == << <<pin, "LOW", "HIGH">>, <<pin, "HIGH", "LOW">> >>

\* C12, state part: the two writes right before every read of the data
\* line are a complete pulse, of the latch at position 0 and of the clock
\* at a later position; the latch and the clock are LOW at every read and
\* whenever loop() is not inside a read function; a read function has
\* pulsed the latch once when it returns; the clock is LOW while the latch
\* is HIGH.
C12_PulseBeforeSample ==
  /\ SamplePending =>
       /\ recent = Pulse(IF clocks = 0 THEN "nesLatch" ELSE "nesClock")
       /\ nesLatch = "LOW"
       /\ nesClock = "LOW"
  /\ (pc # 0 /\ rpc = 0) => (nesLatch = "LOW" /\ nesClock = "LOW")
  /\ AtReturn => latches = 1
  /\ InRead => latches <= 1
  /\ (pc # 0 /\ nesLatch = "HIGH") => nesClock = "LOW"

C12_LatchOnlyWithClockLow ==
  [][(pc # 0 /\ nesLatch' # nesLatch)
       => (nesClock = "LOW" /\ nesClock' = "LOW")]_vars

\* C12: every read of the data line comes right after a complete pulse of
\* the latch or the clock, both lines are LOW at every read and at every
\* cycle boundary, and the latch is pulsed once per row read and never
\* while the clock is HIGH.
C12_PulseThenSample == []C12_PulseBeforeSample /\ C12_LatchOnlyWithClockLow

\* C12 witness: readINrow is about to take its first sample, at position
\* 2, right after a clock pulse, and the line is LOW there.
C12_Witness ==
  /\ SamplePending
  /\ loop[pc].fn = "readINrow"
  /\ clocks = 2
  /\ recent = Pulse("nesClock")
  /\ nesData = "LOW"

\* C13: at every boundary of a polling cycle lastPressedKey is non-zero
\* exactly when a press has been requested since the last releaseAll (or
\* since the start), that is when a key is held on the keyboard; and no key
\* that loop() passes to keyboardButtonPress is 0 as a char.
C13_RecordMatchesKeyboard ==
  /\ (CycleStart \/ CycleDone) => ((lastPressedKey # 0) <=> (held # {}))
  /\ \A i \in 1 .. Len(loop) :
       loop[i].op = "test" => ToChar(loop[i].key) # 0

\* C13 witness: loop() is entered with left-shift held and recorded as the
\* last pressed key (a negative char).
C13_Witness ==
  /\ CycleStart
  /\ lastPressedKey = ToChar(KEY_LEFT_SHIFT)
  /\ lastPressedKey < 0
  /\ KEY_LEFT_SHIFT \in held

\* A step that requests Keyboard.releaseAll().
ReleaseStep == Count(out', "releaseAll") > Count(out, "releaseAll")

\* C14, state part: a cycle requests releaseAll at most once, only at its
\* end, only when its three rows read clear and it requested no press; a run
\* of consecutive all-clear cycles requests at most one releaseAll in all.
C14_AtMostOncePerClearRun ==
  /\ Count(out, "releaseAll") <= 1
  /\ Count(out, "releaseAll") = 1
       => (CycleDone /\ Snap(regs) = {} /\ Count(out, "press") = 0)
  /\ (CycleDone /\ Snap(regs) = {} /\ Snap(prevRegs) = {})
       => runRelease + Count(out, "releaseAll") <= 1

\* C14, step part: releaseAll is requested only by the tail of an all-clear
\* cycle and only while a key pressed since the last releaseAll (or since
\* the start) is held; the request leaves no key held, so the next one needs
\* a press first, and none is made before the first press.
C14_ReleaseNeedsPress ==
  [][ReleaseStep => /\ pc = AtTail
                    /\ Snap(regs) = {}
                    /\ held # {}
                    /\ held' = {}
                    /\ lastPressedKey # 0
                    /\ lastPressedKey' = 0]_vars

\* C14: no spurious releaseAll. It is requested only in a cycle whose three
\* rows read clear; between two requests, and before the first, a press is
\* requested; so a run of all-clear cycles requests it at most once and the
\* cycles before the first press never.
C14_NoSpuriousRelease ==
  []C14_AtMostOncePerClearRun /\ C14_ReleaseNeedsPress

\* C14 witness: an all-clear cycle is done without a releaseAll request,
\* after an all-clear cycle, the run having made its one request before.
C14_Witness ==
  /\ CycleDone
  /\ Snap(regs) = {}
  /\ Snap(prevRegs) = {}
  /\ runRelease = 1
  /\ Count(out, "releaseAll") = 0
  /\ held = {}

====
